---- MODULE Spec2Model ----
(***************************************************************************)
(* Operator-side control loop of the RC car front end (App.vue): keyboard  *)
(* and gamepad sampling, command fusion, rate-limited sending over a       *)
(* WebSocket, and the reconnecting connection manager.  Every callback of  *)
(* the component is one atomic action, as the browser's single-threaded    *)
(* event queue runs it.                                                    *)
(*                                                                         *)
(* Numbers: an axis value v is kept as the integer 1000 * v (ONE = 1.0).   *)
(* Time: performance.now() is unbounded, so the clock is kept relative:    *)
(* age = performance.now() - lastSentTime, saturated just above            *)
(* SEND_INTERVAL (the only value the code compares it with), and every     *)
(* pending timeout keeps the delay it still has to wait.                   *)
(***************************************************************************)
EXTENDS Integers, Sequences, FiniteSets

\* ---------------------------------------------------------------- constants

SEND_INTERVAL == 50

RECONNECT_DELAY == 3000

\* line 130: the not-connected diagnostic is due every LOG_EVERY counted ticks
LOG_EVERY == 60

ONE == 1000

NaN == 999999

\* ------------------------------------------------------------------ bounds

Quantum == 25

MaxSockets == 2

MaxTimers == 2

MaxLoops == 2

MaxFailures == 2

\* ----------------------------------------------------------------- helpers

Min(a, b) == IF a < b THEN a ELSE b

Max(a, b) == IF a > b THEN a ELSE b

AgeCap == SEND_INTERVAL + Quantum

AgeVals == {n \in 0..AgeCap : n = AgeCap \/ n % Quantum = 0}

SockIds == 1..MaxSockets

TimerIds == 1..MaxTimers

LoopIds == 1..MaxLoops

KeyNames == {"w", "a", "s", "d"}

\* the keys of the keyboard events: control keys in either case, and other keys
AllEventKeys == {"w", "a", "s", "d", "W", "D", "x", "Enter"}

\* the keys pressed while the connection is exercised
EventKeys == {"d", "W", "x"}

ListenerNames == {"gamepadconnected", "keydown", "keyup"}

StickVals == {-ONE, -400, 0, 900, ONE}

Pressed == {<<>>, <<TRUE>>, <<FALSE, FALSE>>, <<TRUE, FALSE>>, <<FALSE, TRUE>>, <<TRUE, TRUE>>}

NoPad == [present |-> FALSE, axes |-> <<>>, buttons |-> <<>>]

\* what navigator.getGamepads()[0] can be: no gamepad, or one with 0..2 axes and
\* 0..2 buttons
AllPads ==
    {NoPad} \cup
    {[present |-> TRUE, axes |-> ax, buttons |-> b] :
        ax \in {<<>>} \cup {<<x>> : x \in StickVals}
                 \cup {<<x, y>> : x \in StickVals, y \in StickVals},
        b \in Pressed}

\* the gamepads polled while the connection is exercised: none, a full one, and
\* one with a single button
Pads ==
    {NoPad,
     [present |-> TRUE, axes |-> <<900, -400>>, buttons |-> <<TRUE, FALSE>>],
     [present |-> TRUE, axes |-> <<-ONE, 900>>, buttons |-> <<TRUE>>]}

\* ---------------------------------------------------------- pure functions

\* mutant of ToLowerCase: e.key is used as it comes
ToLowerCaseOmitted(k) == k

\* e.key.toLowerCase() on the keys the environment sends
ToLowerCase(k) ==
    CASE k = "W" -> "w"
      [] k = "D" -> "d"
      [] k = "Enter" -> "enter"
      [] OTHER -> k

\* keyState.hasOwnProperty(name)
HasOwnProperty(name) == name \in KeyNames

onKeyDown(ks, k) ==
    IF HasOwnProperty(ToLowerCase(k)) THEN [ks EXCEPT ![ToLowerCase(k)] = TRUE] ELSE ks

onKeyUp(ks, k) ==
    IF HasOwnProperty(ToLowerCase(k)) THEN [ks EXCEPT ![ToLowerCase(k)] = FALSE] ELSE ks

\* a + b in floating point: NaN is absorbing
Plus(a, b) == IF a = NaN \/ b = NaN THEN NaN ELSE a + b

\* pad.axes[i] (0-based in the source): undefined, hence NaN in a sum, when missing
Axis(pad, i) == IF i + 1 <= Len(pad.axes) THEN pad.axes[i + 1] ELSE NaN

\* mutant of Clamp: the sum is passed on unclamped
ClampOmitted(v) == v

\* Math.max(-1.0, Math.min(1.0, v)); both return NaN for NaN
Clamp(v) == IF v = NaN THEN NaN ELSE Max(-ONE, Min(ONE, v))

\* lines 94-97: the keyboard's contribution to each axis
KeyX(ks) == (IF ks["d"] THEN ONE ELSE 0) - (IF ks["a"] THEN ONE ELSE 0)

\* mutant of KeyY: w and s exchanged
KeyYInverted(ks) == (IF ks["w"] THEN ONE ELSE 0) - (IF ks["s"] THEN ONE ELSE 0)

KeyY(ks) == (IF ks["s"] THEN ONE ELSE 0) - (IF ks["w"] THEN ONE ELSE 0)

\* mutant of FuseAxis: the stick overwrites the keyboard instead of adding to it
FuseAxisOverwrites(key, pad, i) == IF pad.present THEN Clamp(Axis(pad, i)) ELSE key

FuseAxis(key, pad, i) == IF pad.present THEN Clamp(Plus(key, Axis(pad, i))) ELSE key

\* pad.buttons[0].pressed or pad.buttons[1].pressed throws a TypeError when the
\* button is missing
ButtonsThrow(pad) == pad.present /\ Len(pad.buttons) < 2

\* mutant of Button: both triggers read the first button
ButtonFirstOnly(pad, i) == pad.present /\ 1 <= Len(pad.buttons) /\ pad.buttons[1]

Button(pad, i) == pad.present /\ i + 1 <= Len(pad.buttons) /\ pad.buttons[i + 1]

\* lines 88-109: the command fused in one tick, and whether the tick threw
Fuse(ks, pad) ==
    [lx |-> FuseAxis(KeyX(ks), pad, 0),
     ly |-> FuseAxis(KeyY(ks), pad, 1),
     cross |-> Button(pad, 0),
     circle |-> Button(pad, 1),
     threw |-> ButtonsThrow(pad)]

Digit(n) == <<"0", "1", "2", "3", "4", "5", "6", "7", "8", "9">>[n + 1]

RECURSIVE IntDigits(_)
IntDigits(n) == IF n < 10 THEN <<Digit(n)>> ELSE IntDigits(n \div 10) \o <<Digit(n % 10)>>

\* Number.prototype.toFixed(3), as the characters of the text it returns
ToFixed3(v) ==
    IF v = NaN THEN <<"N", "a", "N">>
    ELSE LET m == IF v < 0 THEN -v ELSE v
             f == m % ONE
         IN (IF v < 0 THEN <<"-">> ELSE <<>>) \o IntDigits(m \div ONE) \o <<".">>
              \o <<Digit(f \div 100), Digit((f \div 10) % 10), Digit(f % 10)>>

\* mutant of ControlData: the two axes are exchanged
ControlDataSwapsAxes(c) ==
    [type |-> "control", left_x |-> ToFixed3(c.ly), left_y |-> ToFixed3(c.lx),
     cross_b |-> c.cross, circle_b |-> c.circle]

\* lines 115-121: the wire record
ControlData(c) ==
    [type |-> "control", left_x |-> ToFixed3(c.lx), left_y |-> ToFixed3(c.ly),
     cross_b |-> c.cross, circle_b |-> c.circle]

NoData == [type |-> "none", left_x |-> <<>>, left_y |-> <<>>, cross_b |-> FALSE, circle_b |-> FALSE]

\* mutant of CanSend: only ws is tested, not its readyState
CanSendAnyState(w, socks) == w # 0

\* line 111: ws && ws.readyState === WebSocket.OPEN
CanSend(w, socks) == w # 0 /\ socks[w].readyState = "OPEN"

\* mutant of SendEligible: the interval is not compared
SendEligibleAlways(elapsed) == elapsed >= 0

\* line 113: currentTime - lastSentTime > SEND_INTERVAL
SendEligible(elapsed) == elapsed > SEND_INTERVAL

\* WebSocket.close(): starts the closing handshake of a socket that is not yet closing
WsClose(socks, w) ==
    IF socks[w].readyState \in {"CONNECTING", "OPEN"}
    THEN [socks EXCEPT ![w].readyState = "CLOSING"] ELSE socks

\* a socket object that no longer exists for the program can be allocated again
IsFreeSock(socks, w, s) == socks[s].readyState \in {"NONE", "CLOSED"} /\ s # w

HasFreeSock(socks, w) == \E s \in SockIds : IsFreeSock(socks, w, s)

FreeSock(socks, w) ==
    CHOOSE s \in SockIds :
        IsFreeSock(socks, w, s) /\ \A u \in SockIds : IsFreeSock(socks, w, u) => s <= u

\* lines 61-78: new WebSocket(...), with its three handlers attached
connectWebSocket(socks, w) ==
    LET s == FreeSock(socks, w)
    IN [ws |-> s,
        sockets |-> [socks EXCEPT ![s] = [readyState |-> "CONNECTING", onclose |-> TRUE]]]

\* a timeout handle that names no pending timeout and is not the stale handle kept
IsFreeTimer(tm, rt, t) == tm[t] = -1 /\ t # rt

HasFreeTimer(tm, rt) == \E t \in TimerIds : IsFreeTimer(tm, rt, t)

FreeTimer(tm, rt) ==
    CHOOSE t \in TimerIds :
        IsFreeTimer(tm, rt, t) /\ \A u \in TimerIds : IsFreeTimer(tm, rt, u) => t <= u

\* mutant of onclose: ws is left pointing at the closed socket
oncloseKeepsWs(w, rt, tm) ==
    LET t == FreeTimer(tm, rt)
    IN [ws |-> w, reconnectTimer |-> t, timers |-> [tm EXCEPT ![t] = RECONNECT_DELAY]]

\* mutant of onclose: no reconnect is scheduled
oncloseNoRetry(w, rt, tm) == [ws |-> 0, reconnectTimer |-> rt, timers |-> tm]

\* lines 68-72: ws.onclose
onclose(w, rt, tm) ==
    LET t == FreeTimer(tm, rt)
    IN [ws |-> 0, reconnectTimer |-> t, timers |-> [tm EXCEPT ![t] = RECONNECT_DELAY]]

\* lines 74-77: ws.onerror calls close() on the module's ws, a TypeError if it is null
onerror(w, socks) == IF w = 0 THEN socks ELSE WsClose(socks, w)

\* mutant of ClearTimeout: the timeout is left pending
ClearTimeoutOmitted(tm, h) == tm

\* clearTimeout(h): a handle of no pending timeout is ignored
ClearTimeout(tm, h) == IF h # 0 THEN [tm EXCEPT ![h] = -1] ELSE tm

\* mutant of Expire: setInterval in place of setTimeout, the timeout re-arms
ExpireRearms(tm, t) == [tm EXCEPT ![t] = RECONNECT_DELAY]

\* a timeout created by setTimeout runs once
Expire(tm, t) == [tm EXCEPT ![t] = -1]

\* cancelAnimationFrame(h)
CancelAnimationFrame(pending, h) == pending \ {h}

\* time passing by d ms for a pending timeout
Wait(left, d) == IF left > 0 THEN Max(left - d, 0) ELSE left

\* ------------------------------------------------------------------- state

\* line 129: logCounter++, kept modulo LOG_EVERY (line 130 reads nothing else of it)
Count(n) == (n + 1) % LOG_EVERY

\* lines 130-131: the counter is at a multiple of LOG_EVERY and the socket is not open
Warns(n, w, socks) == n = 0 /\ ~CanSend(w, socks)

VARIABLES
    phase,             \* "created", "mounted" or "unmounted": the component's lifecycle
    keyState,          \* keyState (line 19)
    listeners,         \* the window events the component listens to
    ws,                \* ws (line 58): a socket id, 0 for null
    sockets,           \* every WebSocket object: readyState and whether onclose is set
    reconnectTimer,    \* reconnectTimer (line 59): a timeout handle, 0 for null
    timers,            \* every timeout: the delay left, -1 when none is pending
    animationFrameId,  \* animationFrameId (line 57): a frame request, 0 for null
    rafPending,        \* the tick loops whose gameLoop callback is requested
    age,               \* performance.now() - lastSentTime, saturated at AgeCap
    sinceSend,         \* history: time since the last send, -1 before the first
    freshOpen,         \* history: ws opened and no tick has run on it since
    tornDownFrom,      \* history: the connection state onUnmounted found
    failures,          \* history: close events handled by onclose, up to MaxFailures
    logCounter,        \* logCounter (line 81) of each tick loop, modulo LOG_EVERY
    quiet,             \* history: counted ticks since the last diagnostic, up to LOG_EVERY
    out                \* what the last step did: the key event, or the tick's
                       \* command and send, or the socket's signal

vars == <<phase, keyState, listeners, ws, sockets, reconnectTimer, timers,
          animationFrameId, rafPending, age, sinceSend, freshOpen, tornDownFrom,
          failures, logCounter, quiet, out>>

NoOut ==
    [kind |-> "none", key |-> "", loop |-> 0, pad |-> NoPad, lx |-> 0, ly |-> 0, cross |-> FALSE, circle |-> FALSE,
     threw |-> FALSE, conn |-> "NULL", first |-> FALSE, sent |-> FALSE,
     data |-> NoData, gap |-> -1,
     warn |-> FALSE, run |-> -1]

\* readyState of ws as the diagnostic of line 132 prints it
ConnState(w, socks) == IF w = 0 THEN "NULL" ELSE socks[w].readyState

Live(socks) == {s \in SockIds : socks[s].readyState \in {"CONNECTING", "OPEN"}}

PendingTimers(tm) == {t \in TimerIds : tm[t] >= 0}

\* the state after <script setup> has run (lines 13-19, 57-59)
Init ==
    /\ phase = "created"
    /\ keyState = [k \in KeyNames |-> FALSE]
    /\ listeners = {}
    /\ ws = 0
    /\ sockets = [s \in SockIds |-> [readyState |-> "NONE", onclose |-> FALSE]]
    /\ reconnectTimer = 0
    /\ timers = [t \in TimerIds |-> -1]
    /\ animationFrameId = 0
    /\ rafPending = {}
    /\ age \in AgeVals
    /\ sinceSend = -1
    /\ freshOpen = FALSE
    /\ tornDownFrom = "none"
    /\ failures = 0
    /\ logCounter = [l \in LoopIds |-> 0]
    /\ quiet = 0
    /\ out = NoOut

\* ----------------------------------------------------------------- actions

\* lines 32-40: onMounted; startGamepadPolling requests the first frame (line 143)
OnMounted ==
    /\ phase = "created"
    /\ HasFreeSock(sockets, ws)
    /\ phase' = "mounted"
    /\ listeners' = ListenerNames
    /\ LET c == connectWebSocket(sockets, ws)
       IN ws' = c.ws /\ sockets' = c.sockets
    /\ LET l == CHOOSE i \in LoopIds : i \notin rafPending /\ \A j \in LoopIds \ rafPending : i <= j
       IN /\ rafPending' = rafPending \cup {l} /\ animationFrameId' = l
          /\ logCounter' = [logCounter EXCEPT ![l] = 0]
    /\ out' = NoOut
    /\ UNCHANGED <<keyState, reconnectTimer, timers, age, sinceSend, freshOpen, tornDownFrom,
                   failures, quiet>>

\* lines 80-144: a gamepadconnected event runs startGamepadPolling again
GamepadConnected ==
    /\ "gamepadconnected" \in listeners
    /\ LoopIds \ rafPending # {}
    /\ LET l == CHOOSE i \in LoopIds : i \notin rafPending /\ \A j \in LoopIds \ rafPending : i <= j
       IN /\ rafPending' = rafPending \cup {l} /\ animationFrameId' = l
          /\ logCounter' = [logCounter EXCEPT ![l] = 0]
    /\ out' = NoOut
    /\ UNCHANGED <<phase, keyState, listeners, ws, sockets, reconnectTimer, timers,
                   age, sinceSend, freshOpen, tornDownFrom, failures, quiet>>

\* lines 20-22
KeyDown(k) ==
    /\ "keydown" \in listeners
    /\ keyState' = onKeyDown(keyState, k)
    /\ out' = [NoOut EXCEPT !.kind = "keydown", !.key = k]
    /\ UNCHANGED <<phase, listeners, ws, sockets, reconnectTimer, timers,
                   animationFrameId, rafPending, age, sinceSend, freshOpen, tornDownFrom,
                   failures, logCounter, quiet>>

\* lines 23-25
KeyUp(k) ==
    /\ "keyup" \in listeners
    /\ keyState' = onKeyUp(keyState, k)
    /\ out' = [NoOut EXCEPT !.kind = "keyup", !.key = k]
    /\ UNCHANGED <<phase, listeners, ws, sockets, reconnectTimer, timers,
                   animationFrameId, rafPending, age, sinceSend, freshOpen, tornDownFrom,
                   failures, logCounter, quiet>>

\* lines 83-126 and 139: one gameLoop callback of loop l, with the gamepad it polls,
\* given what its branch of lines 127-136 does.  A TypeError leaves the callback
\* before line 111: nothing is sent, counted or logged, and no frame is requested.
Tick(l, pad, warn, run) ==
    /\ l \in rafPending
    /\ LET c == Fuse(keyState, pad)
           open == CanSend(ws, sockets)
           send == ~c.threw /\ open /\ SendEligible(age)
       IN /\ out' = [kind |-> "tick", key |-> "", loop |-> l, pad |-> pad, lx |-> c.lx, ly |-> c.ly,
                     cross |-> c.cross, circle |-> c.circle, threw |-> c.threw,
                     conn |-> ConnState(ws, sockets), first |-> freshOpen,
                     sent |-> send,
                     data |-> IF send THEN ControlData(c) ELSE NoData,
                     gap |-> IF send THEN sinceSend ELSE -1,
                     warn |-> warn, run |-> run]
          /\ age' = IF send THEN 0 ELSE age
          /\ sinceSend' = IF send THEN 0 ELSE sinceSend
          /\ freshOpen' = (freshOpen /\ ~open)
          /\ IF c.threw
             THEN rafPending' = rafPending \ {l} /\ UNCHANGED animationFrameId
             ELSE animationFrameId' = l /\ UNCHANGED rafPending
    /\ UNCHANGED <<phase, keyState, listeners, ws, sockets, reconnectTimer, timers,
                   tornDownFrom, failures>>

\* lines 83-140 seen from the socket: the callback without its console side.  The
\* counter of lines 127-136 is local to the loop and feeds console.warn only, so
\* what is sent and requested does not depend on it.
GameLoop(l, pad) ==
    /\ Tick(l, pad, FALSE, -1)
    /\ UNCHANGED <<logCounter, quiet>>

\* lines 83-140 in full: the callback with lines 127-136, which count the tick in
\* the loop's logCounter when the socket is not open and log every LOG_EVERY-th
GameLoopLogging(l, pad) ==
    LET counts == ~Fuse(keyState, pad).threw /\ ~CanSend(ws, sockets)
        n == Count(logCounter[l])
        warn == counts /\ Warns(n, ws, sockets)
        run == Min(quiet + 1, LOG_EVERY)
    IN /\ Tick(l, pad, warn, IF warn THEN run ELSE -1)
       /\ logCounter' = IF counts THEN [logCounter EXCEPT ![l] = n] ELSE logCounter
       /\ quiet' = IF warn THEN 0 ELSE IF counts THEN run ELSE quiet

\* lines 64-66: the handshake succeeds and onopen logs it
SockOpen(s) ==
    /\ sockets[s].readyState = "CONNECTING"
    /\ sockets' = [sockets EXCEPT ![s].readyState = "OPEN"]
    /\ freshOpen' = (freshOpen \/ ws = s)
    /\ out' = NoOut
    /\ UNCHANGED <<phase, keyState, listeners, ws, reconnectTimer, timers,
                   animationFrameId, rafPending, age, sinceSend, tornDownFrom, failures,
                   logCounter, quiet>>

\* the close event of socket s, its readyState already CLOSED: onclose if still set
CloseEvent(s, socks, signal) ==
    /\ sockets' = socks
    /\ freshOpen' = (freshOpen /\ ws # s)
    /\ out' = [NoOut EXCEPT !.kind = signal, !.conn = ConnState(ws, sockets)]
    /\ IF sockets[s].onclose
       THEN /\ HasFreeTimer(timers, reconnectTimer)
            /\ LET r == onclose(ws, reconnectTimer, timers)
               IN ws' = r.ws /\ reconnectTimer' = r.reconnectTimer /\ timers' = r.timers
            /\ failures' = Min(failures + 1, MaxFailures)
       ELSE UNCHANGED <<ws, reconnectTimer, timers, failures>>
    /\ UNCHANGED <<phase, keyState, listeners, animationFrameId, rafPending, age,
                   sinceSend, tornDownFrom, logCounter, quiet>>

\* the connection closes without an error: the peer closes it, or close() completes
SockClose(s) ==
    /\ sockets[s].readyState \in {"OPEN", "CLOSING"}
    /\ CloseEvent(s, [sockets EXCEPT ![s].readyState = "CLOSED"], "close")

\* the connection fails (handshake or mid-session): the browser sets CLOSED and
\* fires error, then close, in one task
SockError(s) ==
    /\ sockets[s].readyState \in {"CONNECTING", "OPEN", "CLOSING"}
    /\ CloseEvent(s, onerror(ws, [sockets EXCEPT ![s].readyState = "CLOSED"]), "error")

\* the timeout of line 71 runs connectWebSocket
TimerFire(t) ==
    /\ timers[t] = 0
    /\ HasFreeSock(sockets, ws)
    /\ timers' = Expire(timers, t)
    /\ LET c == connectWebSocket(sockets, ws)
       IN ws' = c.ws /\ sockets' = c.sockets
    /\ out' = NoOut
    /\ UNCHANGED <<phase, keyState, listeners, reconnectTimer, animationFrameId,
                   rafPending, age, sinceSend, freshOpen, tornDownFrom, failures,
                   logCounter, quiet>>

\* lines 42-55: onUnmounted
OnUnmounted ==
    /\ phase = "mounted"
    /\ phase' = "unmounted"
    /\ rafPending' = IF animationFrameId # 0
                     THEN CancelAnimationFrame(rafPending, animationFrameId)
                     ELSE rafPending
    /\ listeners' = {}
    /\ timers' = ClearTimeout(timers, reconnectTimer)
    /\ sockets' = IF ws # 0
                  THEN WsClose([sockets EXCEPT ![ws].onclose = FALSE], ws)
                  ELSE sockets
    /\ freshOpen' = FALSE
    /\ tornDownFrom' = IF ws # 0 THEN sockets[ws].readyState
                       ELSE IF PendingTimers(timers) # {} THEN "timer" ELSE "idle"
    /\ out' = NoOut
    /\ UNCHANGED <<keyState, ws, reconnectTimer, animationFrameId, age, sinceSend,
                   failures, logCounter, quiet>>

\* d ms pass.  A step of Quantum is taken while it changes what line 113 sees; once
\* age is saturated only the time left on the timeouts matters, and it passes in
\* steps of RECONNECT_DELAY.
Advance(d) ==
    /\ d = Quantum => age < AgeCap
    /\ age' = Min(age + d, AgeCap)
    /\ sinceSend' = IF sinceSend < 0 THEN sinceSend ELSE Min(sinceSend + d, AgeCap)
    /\ timers' = [t \in TimerIds |-> Wait(timers[t], d)]
    /\ out' = NoOut
    /\ UNCHANGED <<phase, keyState, listeners, ws, sockets, reconnectTimer,
                   animationFrameId, rafPending, freshOpen, tornDownFrom, failures,
                   logCounter, quiet>>

Next ==
    \/ OnMounted
    \/ GamepadConnected
    \/ \E k \in EventKeys : KeyDown(k)
    \/ \E k \in EventKeys : KeyUp(k)
    \/ \E l \in LoopIds, pad \in Pads : GameLoop(l, pad)
    \/ \E s \in SockIds : SockOpen(s)
    \/ \E s \in SockIds : SockClose(s)
    \/ \E s \in SockIds : SockError(s)
    \/ \E t \in TimerIds : TimerFire(t)
    \/ OnUnmounted
    \/ \E d \in {Quantum, RECONNECT_DELAY} : Advance(d)

Spec == Init /\ [][Next]_vars

\* the input side alone: every key event and every gamepad, the network silent
InputNext ==
    \/ OnMounted
    \/ \E k \in AllEventKeys : KeyDown(k)
    \/ \E k \in AllEventKeys : KeyUp(k)
    \/ \E l \in LoopIds, pad \in AllPads : GameLoop(l, pad)

InputInit == Init /\ age = 0

InputSpec == InputInit /\ [][InputNext]_vars

\* the console side: the tick loops with their counters while the server does not
\* answer the first connection attempt, no gamepad plugged in and the clock
\* standing still
DiagNext ==
    \/ OnMounted
    \/ GamepadConnected
    \/ \E l \in LoopIds : GameLoopLogging(l, NoPad)

DiagInit == Init /\ age = AgeCap

DiagSpec == DiagInit /\ [][DiagNext]_vars

\* the event queue runs a timeout that is due, and time passes
LiveSpec ==
    /\ Init
    /\ [][Next]_vars
    /\ WF_vars(\E t \in TimerIds : TimerFire(t))
    /\ WF_vars(Advance(RECONNECT_DELAY))

\* ------------------------------------------------------------------ claims

InRange(v) == -ONE <= v /\ v <= ONE

HasAxes(pad) == ~pad.present \/ Len(pad.axes) >= 2

\* C1: on every tick, whatever keys are held and whether the gamepad is absent or
\* present with both axes in [-1,1], the fused lx and ly are within [-1,1].
C1_FusedAxesInRange ==
    (out.kind = "tick" /\ HasAxes(out.pad)) => (InRange(out.lx) /\ InRange(out.ly))

\* a tick where d and w are held and the stick adds 0.9 and -1.0: both sums saturate
C1_Witness ==
    /\ out.kind = "tick"
    /\ out.pad.present /\ out.pad.axes = <<900, -ONE>>
    /\ keyState["d"] /\ ~keyState["a"] /\ keyState["w"] /\ ~keyState["s"]
    /\ out.lx = ONE /\ out.ly = -ONE

\* C2: a tick sends only when ws is a socket whose readyState is OPEN.
C2_SendOnlyWhenOpen == out.sent => out.conn = "OPEN"

\* a tick with the send interval long elapsed and ws null: nothing is sent
C2_Witness ==
    /\ out.kind = "tick" /\ ~out.threw
    /\ out.conn = "NULL" /\ age = AgeCap
    /\ ~out.sent

\* C3: two successive sends are at least SEND_INTERVAL apart, with any number of
\* tick loops and across reconnects.
C3_SendsSpaced == (out.sent /\ out.gap >= 0) => out.gap >= SEND_INTERVAL

\* a send after an earlier one, with two tick loops running, after a reconnect
C3_Witness ==
    /\ out.sent /\ out.gap >= SEND_INTERVAL
    /\ Cardinality(rafPending) >= 2
    /\ failures >= 1

ClosesWhileOpen == ws # 0 /\ sockets[ws].readyState = "OPEN" /\ sockets'[ws].readyState = "CLOSED"

C4_Step ==
    ClosesWhileOpen =>
        /\ ws' = 0
        /\ Cardinality(PendingTimers(timers')) = 1
        /\ timers'[reconnectTimer'] = RECONNECT_DELAY

\* C4: a close of the Open connection sets ws to null and leaves exactly one
\* reconnect timeout pending, of the reconnect delay; never are two pending,
\* whatever signals follow.
C4_CloseSchedulesOneReconnect ==
    [][C4_Step]_vars /\ [](Cardinality(PendingTimers(timers)) <= 1)

\* the Open connection failed: error and close were both signalled, one timeout pends
C4_Witness ==
    /\ out.kind = "error" /\ out.conn = "OPEN"
    /\ ws = 0
    /\ Cardinality(PendingTimers(timers)) = 1
    /\ timers[reconnectTimer] = RECONNECT_DELAY

Created(s) == sockets[s].readyState # "CONNECTING" /\ sockets'[s].readyState = "CONNECTING"

C5_Step == (\E s \in SockIds : Created(s)) => Live(sockets) = {}

\* C5: at most one socket is Connecting or Open, and connectWebSocket runs only
\* when none is.
C5_OneLiveConnection == [][C5_Step]_vars /\ [](Cardinality(Live(sockets)) <= 1)

\* a reconnect: a socket is Connecting after two earlier connections were closed
C5_Witness ==
    /\ ws # 0 /\ sockets[ws].readyState = "CONNECTING"
    /\ failures >= 2

C6_Step == phase = "unmounted" => ~(\E s \in SockIds : Created(s))

\* C6: after onUnmounted no socket is ever created and no reconnect timeout is
\* pending, whether teardown found a pending timeout or a Connecting or Open socket.
C6_NoConnectAfterShutdown ==
    [][C6_Step]_vars /\ [](phase = "unmounted" => PendingTimers(timers) = {})

\* teardown closed an Open connection, its close event has been delivered, and
\* nothing reconnects
C6_Witness ==
    /\ phase = "unmounted" /\ tornDownFrom = "OPEN"
    /\ ws # 0 /\ sockets[ws].readyState = "CLOSED"
    /\ PendingTimers(timers) = {}

\* teardown found a reconnect timeout pending and cancelled it
C6_WitnessTimer ==
    /\ phase = "unmounted" /\ tornDownFrom = "timer"
    /\ PendingTimers(timers) = {}

C7_Step == phase = "unmounted" => out'.kind # "tick"

\* C7: after onUnmounted no gameLoop tick ever runs.
C7_NoTickAfterUnmount == [][C7_Step]_vars

Disconnected == phase = "mounted" /\ ws = 0

Attempting == ws # 0 /\ sockets[ws].readyState = "CONNECTING"

C8_Step == \A t \in TimerIds : (timers[t] = -1 /\ timers'[t] >= 0) => timers'[t] = RECONNECT_DELAY

\* C8: while mounted, every close of the connection is followed by a new connection
\* attempt, and every reconnect timeout is set to the same RECONNECT_DELAY.
C8_AlwaysReconnects ==
    /\ Disconnected ~> (Attempting \/ phase = "unmounted")
    /\ [][C8_Step]_vars

\* a new attempt after MaxFailures connections have already been lost
C8_Witness == phase = "mounted" /\ Attempting /\ failures = MaxFailures

\* C9: every tick before shutdown requests the next frame.
C9_TickReschedules == (out.kind = "tick" /\ phase = "mounted") => out.loop \in rafPending

\* C10: the first tick that runs on an Open connection after it opened sends.
C10_FirstTickAfterOpenSends ==
    (out.kind = "tick" /\ out.first /\ out.conn = "OPEN" /\ ~out.threw) => out.sent

\* C11: a tick on an Open connection with at least SEND_INTERVAL elapsed since
\* lastSentTime, exactly SEND_INTERVAL included, sends, and lastSentTime becomes
\* the current time; so a tick that did not send saw less than SEND_INTERVAL.
C11_SendsAtInterval ==
    (out.kind = "tick" /\ out.conn = "OPEN" /\ ~out.threw) =>
        IF out.sent THEN age = 0 ELSE age < SEND_INTERVAL

NoTimerWhen(cond) == cond => PendingTimers(timers) = {}

\* C12: at most one reconnect timeout is pending, and none while a socket is
\* Connecting or Open or after teardown.
C12_OneTimerOnlyWhenDown ==
    /\ Cardinality(PendingTimers(timers)) <= 1
    /\ NoTimerWhen(Live(sockets) # {})
    /\ NoTimerWhen(phase = "unmounted")

\* the second reconnect timeout, alone and with no socket alive
C12_Witness ==
    /\ phase = "mounted" /\ failures >= 2
    /\ Cardinality(PendingTimers(timers)) = 1 /\ timers[reconnectTimer] > 0
    /\ Live(sockets) = {}

WsInFlight == ws # 0 /\ sockets[ws].readyState \in {"CONNECTING", "OPEN", "CLOSING"}

\* C20: while mounted, either ws is a socket that is Connecting, Open or Closing,
\* or a reconnect timeout is pending.
C20_NeverStuck == phase = "mounted" => (WsInFlight \/ PendingTimers(timers) # {})

\* disconnected with the reconnect timeout due, after MaxFailures lost connections
C20_Witness ==
    /\ phase = "mounted" /\ ws = 0 /\ failures = MaxFailures
    /\ \E t \in TimerIds : timers[t] = 0

\* one direction pair of switches: +1, -1, or 0 when both or neither are held
Net(pos, neg) == CASE pos /\ ~neg -> ONE [] neg /\ ~pos -> -ONE [] OTHER -> 0

\* C13: with no gamepad the fused command is axisX = d - a, axisY = s - w, both
\* triggers false; opposite keys cancel and w alone gives (0, -1).
C13_KeyboardOnly ==
    (out.kind = "tick" /\ ~out.pad.present) =>
        /\ out.lx = Net(keyState["d"], keyState["a"])
        /\ out.ly = Net(keyState["s"], keyState["w"])
        /\ ~out.cross /\ ~out.circle

\* w alone, no gamepad: {axisX: 0, axisY: -1, triggerA: false, triggerB: false}
C13_Witness ==
    /\ out.kind = "tick" /\ ~out.pad.present
    /\ keyState["w"] /\ ~keyState["a"] /\ ~keyState["s"] /\ ~keyState["d"]
    /\ out.lx = 0 /\ out.ly = -ONE /\ ~out.cross /\ ~out.circle

Saturate(v) == IF v > ONE THEN ONE ELSE IF v < -ONE THEN -ONE ELSE v

\* C14: with a gamepad each fused axis is the keyboard's contribution plus the
\* stick's value, clamped once after the sum.
C14_SumThenClamp ==
    (out.kind = "tick" /\ out.pad.present /\ Len(out.pad.axes) >= 2) =>
        /\ out.lx = Saturate(Net(keyState["d"], keyState["a"]) + out.pad.axes[1])
        /\ out.ly = Saturate(Net(keyState["s"], keyState["w"]) + out.pad.axes[2])

\* d held against a stick at -0.4 gives 0.6, and s held with the stick at 0.9 gives 1.0
C14_Witness ==
    /\ out.kind = "tick" /\ out.pad.present /\ out.pad.axes = <<-400, 900>>
    /\ keyState["d"] /\ ~keyState["a"] /\ keyState["s"] /\ ~keyState["w"]
    /\ out.lx = 600 /\ out.ly = ONE

Held(pad, n) == pad.present /\ Len(pad.buttons) >= n /\ pad.buttons[n]

\* C15: cross is true exactly when a gamepad is present and its button 0 is
\* pressed, circle exactly when its button 1 is, whatever keys are held.
C15_Triggers ==
    out.kind = "tick" => (out.cross = Held(out.pad, 1) /\ out.circle = Held(out.pad, 2))

\* keys held, button 1 pressed and button 0 not: circle alone is true
C15_Witness ==
    /\ out.kind = "tick" /\ out.pad.present /\ out.pad.buttons = <<FALSE, TRUE>>
    /\ keyState["w"] /\ keyState["d"]
    /\ ~out.cross /\ out.circle

\* the values of e.key that name control key c, in either case
Spellings(c) ==
    CASE c = "w" -> {"w", "W"} [] c = "a" -> {"a", "A"}
      [] c = "s" -> {"s", "S"} [] c = "d" -> {"d", "D"}

KeyEdge(kind, value) ==
    out'.kind = kind =>
        \A c \in KeyNames :
            keyState'[c] = IF out'.key \in Spellings(c) THEN value ELSE keyState[c]

C18_Step ==
    /\ KeyEdge("keydown", TRUE)
    /\ KeyEdge("keyup", FALSE)
    /\ out'.kind \notin {"keydown", "keyup"} => keyState' = keyState

\* C18: a key-down sets and a key-up clears exactly the control key it names, in
\* either case, a notification for another key changes nothing, and no other
\* step, a tick included, changes keyState; so each key's state is that of its
\* most recent notification.
C18_KeyStateFollowsEdges == [][C18_Step]_vars

\* D was released after all four keys were held: d alone is cleared
C18_Witness ==
    /\ out.kind = "keyup" /\ out.key = "D"
    /\ ~keyState["d"] /\ keyState["w"] /\ keyState["a"] /\ keyState["s"]

DigitValue(ch) == CHOOSE n \in 0..9 : <<"0", "1", "2", "3", "4", "5", "6", "7", "8", "9">>[n + 1] = ch

RECURSIVE Whole(_)
Whole(t) == IF t = <<>> THEN 0 ELSE 10 * Whole(SubSeq(t, 1, Len(t) - 1)) + DigitValue(t[Len(t)])

\* the number a text of three decimals stands for, in thousandths
Decimal(t) ==
    IF t = <<"N", "a", "N">> THEN NaN
    ELSE LET u == IF t[1] = "-" THEN Tail(t) ELSE t
             n == Len(u)
             m == ONE * Whole(SubSeq(u, 1, n - 4))
                    + 100 * DigitValue(u[n - 2]) + 10 * DigitValue(u[n - 1]) + DigitValue(u[n])
         IN IF t[1] = "-" THEN -m ELSE m

ThreeDecimals(t) == t = <<"N", "a", "N">> \/ (Len(t) >= 5 /\ t[Len(t) - 3] = ".")

\* the axis the inputs sampled by the last tick fuse to
Fresh(pos, neg, pad, i) ==
    IF ~pad.present THEN Net(keyState[pos], keyState[neg])
    ELSE IF Len(pad.axes) < i THEN NaN
    ELSE Saturate(Net(keyState[pos], keyState[neg]) + pad.axes[i])

\* C16: a record is sent only by a tick, is tagged 'control', and carries the
\* command that this same tick fused from the inputs it sampled: the axes as
\* texts of three decimals, the triggers as they are.
C16_SendsOwnCommand ==
    out.sent =>
        /\ out.kind = "tick"
        /\ out.data.type = "control"
        /\ ThreeDecimals(out.data.left_x) /\ ThreeDecimals(out.data.left_y)
        /\ Decimal(out.data.left_x) = Fresh("d", "a", out.pad, 1)
        /\ Decimal(out.data.left_y) = Fresh("s", "w", out.pad, 2)
        /\ out.data.cross_b = Held(out.pad, 1)
        /\ out.data.circle_b = Held(out.pad, 2)

\* after a reconnect: d held with the stick at (0.9, -0.4) and cross pressed is sent
\* as "1.000", "-0.400", true, false
C16_Witness ==
    /\ out.sent /\ failures >= 1
    /\ out.data.left_x = <<"1", ".", "0", "0", "0">>
    /\ out.data.left_y = <<"-", "0", ".", "4", "0", "0">>
    /\ out.data.cross_b /\ ~out.data.circle_b

\* C17: a diagnostic is logged only by a tick that finds the connection not
\* open, and only when LOG_EVERY such ticks have run since the diagnostic before
\* it (since the start for the first one), this tick included.
C17_DiagnosticThrottled ==
    out.warn => (out.kind = "tick" /\ out.conn # "OPEN" /\ out.run >= LOG_EVERY)

\* C19: while the component is mounted exactly one gameLoop callback is pending.
C19_OneTickLoop == phase = "mounted" => Cardinality(rafPending) = 1

====
